---- MODULE Spec2Model ----
(***************************************************************************)
(* Card-key activation handlers of twilight-flower-fc72.                   *)
(*                                                                         *)
(* The repository holds three versions of the same request handler:        *)
(*   "onRequest" : src/src/index.ts, lines 8-103                           *)
(*                 (16-character keys, expiry stored in expires_at,        *)
(*                  gate on the store clock, branch/write on Date.now())   *)
(*   "fetchA"    : src/unnamed/part_000, lines 19-131                      *)
(*                 (5x5 keys, expiry derived from first_used_at,           *)
(*                  gate on the store clock, branch/write on Date.now())   *)
(*   "fetchB"    : src/unnamed/part_000, lines 194-347                     *)
(*                 (5x5 keys, expiry derived from first_used_at,           *)
(*                  every time value read from the store clock)            *)
(* A behaviour of the model runs one of them (variant) against one table   *)
(* card_keys, with Reqs concurrent requests interleaved at their awaits.   *)
(*                                                                         *)
(* The table's columns is_used, first_used_at, activated_at and expires_at *)
(* are taken to have INTEGER affinity (the spec's store schema: "nullable  *)
(* integer epoch seconds").  CORS headers and logging are left out.        *)
(***************************************************************************)
EXTENDS Integers, Sequences, FiniteSets, TLC

VARIABLES
    variant,    \* which handler is deployed
    card_keys,  \* the table card_keys: key -> row
    dbNow,      \* the store's clock, strftime('%s','now'), in seconds
    skewMs,     \* Date.now() minus the store's clock, in milliseconds
    ticks,      \* number of clock advances so far
    calls,      \* number of requests received so far
    pc,         \* per request: "idle", "select", "clock", "update", "done"
    cardKey,    \* per request: the validated cardKey
    result,     \* per request: the row the gate SELECT returned
    now,        \* per request: the handler's local `now`
    resp,       \* per request: the response sent
    seen,       \* per request: the table row and store time at the gate SELECT
    prior,      \* per request: the renewals already answered when it arrived
    dead,       \* per request: its key was activated and expired when it arrived
    io,         \* per request: the store reads and writes it has issued
    late        \* per request: it arrived after an ACTIVATION_SUCCESS for its key

vars == <<variant, card_keys, dbNow, skewMs, ticks, calls, pc, cardKey, result, now, resp, seen, prior, dead, io, late>>

----------------------------------------------------------------------------
(* Bounds of the model. *)

MaxCalls == 4
MaxTicks == 3
StartTime == 1000

Reqs == {1, 2}

\* The clock advances along a fixed schedule of steps, so that a request can
\* fall 100 s after an activation, exactly on its expiry and 1 s past it.
TickStep(i) == CASE i % 3 = 0 -> 100 [] i % 3 = 1 -> 86300 [] OTHER -> 1
SkewsMs == {0 - 1000, 0, 2500}
Variants == {"onRequest", "fetchA", "fetchB"}

----------------------------------------------------------------------------
(* Program constants. *)

NULL == -1

\* 24 * 60 * 60: the window added to first_used_at / written to expires_at
WINDOW == 24 * 60 * 60

\* expires_in and Max-Age announced by onRequest on first activation
ANNOUNCED_30D == 2592000

\* what each handler announces on first activation
expiresIn(v) == IF v = "onRequest" THEN ANNOUNCED_30D ELSE WINDOW

----------------------------------------------------------------------------
(* Card keys are sequences of characters. *)

UpperAlnum ==
    {"A","B","C","D","E","F","G","H","I","J","K","L","M","N","O","P","Q","R",
     "S","T","U","V","W","X","Y","Z","0","1","2","3","4","5","6","7","8","9"}

Group(c) == <<c, c, c, c, c>>
Canon(a, b, c, d, e) ==
    Group(a) \o <<"-">> \o Group(b) \o <<"-">> \o Group(c) \o <<"-">> \o Group(d) \o <<"-">> \o Group(e)

Key5x5      == Canon("A", "B", "C", "D", "E")   \* AAAAA-BBBBB-CCCCC-DDDDD-EEEEE
Key5x5Other == Canon("Z", "9", "Z", "9", "Z")
Key16       == Group("A") \o Group("1") \o Group("B") \o <<"2">>
Key16Other  == Group("Z") \o Group("9") \o Group("Y") \o <<"8">>
KeyBad      == <<"b","a","d","-","f","o","r","m","a","t">>

\* /^[A-Z0-9]{5}-[A-Z0-9]{5}-[A-Z0-9]{5}-[A-Z0-9]{5}-[A-Z0-9]{5}$/
MatchesCanonical(s) ==
    /\ Len(s) = 29
    /\ \A i \in 1..29 : IF i % 6 = 0 THEN s[i] = "-" ELSE s[i] \in UpperAlnum

\* z.string().length(16).regex(/^[A-Z0-9]+$/)
Matches16(s) ==
    /\ Len(s) = 16
    /\ \A i \in 1..Len(s) : s[i] \in UpperAlnum

\* Request bodies: not JSON at all, JSON without cardKey, JSON with a cardKey.
Bodies ==
    {[kind |-> "text", cardKey |-> <<>>], [kind |-> "nokey", cardKey |-> <<>>]}
    \cup {[kind |-> "json", cardKey |-> k] :
            k \in {Key5x5, Key5x5Other, Key16, Key16Other, KeyBad}}

\* CardValidationSchema.parse(data): TRUE when it returns, FALSE when it throws ZodError
CardValidationSchema(v, body) ==
    /\ body.kind = "json"
    /\ IF v = "onRequest" THEN Matches16(body.cardKey) ELSE MatchesCanonical(body.cardKey)

\* the keys provisioned out of band for each deployment
Provisioned(v) == IF v = "onRequest" THEN {Key16} ELSE {Key5x5}

----------------------------------------------------------------------------
(* Time values and their conversions. *)

RECURSIVE Digits(_)
Digits(n) == IF n < 10 THEN <<n>> ELSE Append(Digits(n \div 10), n % 10)

\* strftime('%s', 'now'): the store clock as TEXT (a sequence of decimal digits)
strftime(t) == Digits(t)

RECURSIVE parseInt(_)
\* parseInt(text, 10) on a string of decimal digits
parseInt(s) ==
    IF Len(s) = 0 THEN 0
    ELSE parseInt(SubSeq(s, 1, Len(s) - 1)) * 10 + s[Len(s)]

\* Date.now(), in milliseconds
DateNow == dbNow * 1000 + skewMs

\* Math.floor(Date.now() / 1000)
WallNow == DateNow \div 1000

----------------------------------------------------------------------------
(* Rows and responses. *)

NoRow == [found |-> FALSE, is_used |-> FALSE, first_used_at |-> NULL,
          activated_at |-> NULL, expires_at |-> NULL]

\* The expires_at a key is provisioned with.  onRequest's gate reads the stored
\* expires_at of never-used rows too (CardKey.expires_at is a number), so its
\* keys carry one from provisioning: 30 days ahead, or one that runs out a day
\* after the first request.  The fetch handlers' table stores none.
ProvisionedExpiry(v) ==
    IF v = "onRequest" THEN {StartTime + ANNOUNCED_30D, StartTime + WINDOW} ELSE {NULL}

\* a row as provisioned: never used
FreshRow(v, e) ==
    [found |-> TRUE, is_used |-> FALSE, first_used_at |-> NULL, activated_at |-> NULL,
     expires_at |-> e]

\* store statements issued by a request
NoIo == [reads |-> 0, writes |-> 0]

\* the statement a request issues on entering a stage: the gate SELECT, the
\* current-time SELECT, the UPDATE
Issue(c, stage) ==
    [reads  |-> c.reads + (IF stage \in {"select", "clock"} THEN 1 ELSE 0),
     writes |-> c.writes + (IF stage = "update" THEN 1 ELSE 0)]

NoResp == [status |-> 0, valid |-> FALSE, code |-> "NONE", message |-> "NONE",
           expires_in |-> NULL, max_age |-> NULL]

\* Response.json(body) / new Response(JSON.stringify(body), {headers}) without a cookie
Reply(status, code, message) ==
    [status |-> status, valid |-> FALSE, code |-> code, message |-> message,
     expires_in |-> NULL, max_age |-> NULL]

\* a valid:true response whose cookie always lasts a full window
GrantFullWindow(code, expires_in) ==
    [status |-> 200, valid |-> TRUE, code |-> code, message |-> "NONE",
     expires_in |-> expires_in, max_age |-> WINDOW]

\* a valid:true response with its Set-Cookie Max-Age
Grant(code, expires_in) ==
    [status |-> 200, valid |-> TRUE, code |-> code, message |-> "NONE",
     expires_in |-> expires_in, max_age |-> expires_in]

----------------------------------------------------------------------------
(* The three gate queries.  strftime('%s','now') is TEXT. *)

\* SQLite's `i > text` for an INTEGER i: when the left operand is a column with
\* INTEGER affinity the text is converted and the comparison is numeric; when
\* neither operand has an affinity no conversion happens and an INTEGER sorts
\* before any TEXT, so the comparison is false.
SqlIntGreaterText(i, text, columnAffinity) ==
    IF columnAffinity THEN i > parseInt(text) ELSE FALSE

\* WHERE card_key = ? AND expires_at > strftime('%s', 'now')
GateOnRequest(row, t) ==
    /\ row.expires_at # NULL
    /\ SqlIntGreaterText(row.expires_at, strftime(t), TRUE)

\* AND (first_used_at IS NULL OR first_used_at + 86400 > strftime('%s', 'now'))
GateFetchA(row, t) ==
    \/ row.first_used_at = NULL
    \/ SqlIntGreaterText(row.first_used_at + WINDOW, strftime(t), FALSE)

\* AND (first_used_at IS NULL OR first_used_at + 86400 - strftime('%s', 'now'))>0
\* The parenthesis closes after the OR: the OR yields 1 or 0 and that is
\* compared with 0.  The right operand of OR is a number, true when nonzero.
GateFetchB(row, t) ==
    LET orValue == IF row.first_used_at = NULL THEN 1
                   ELSE IF row.first_used_at + WINDOW - parseInt(strftime(t)) # 0 THEN 1
                   ELSE 0
    IN  orValue > 0

Gate(v, row, t) ==
    CASE v = "onRequest" -> GateOnRequest(row, t)
      [] v = "fetchA"    -> GateFetchA(row, t)
      [] v = "fetchB"    -> GateFetchB(row, t)

\* .first<CardKey>(): the matching row that passes the gate, or null.  The fetch
\* handlers select (first_used_at + 86400) as expires_at beside the row.
SelectFirst(v, table, key, t) ==
    IF key \in DOMAIN table /\ Gate(v, table[key], t)
    THEN IF v = "onRequest" THEN table[key]
         ELSE [table[key] EXCEPT !.expires_at =
                  IF table[key].first_used_at = NULL THEN NULL
                  ELSE table[key].first_used_at + WINDOW]
    ELSE NoRow

\* the row of the table whatever the gate says (for the properties)
RowOf(table, key) == IF key \in DOMAIN table THEN table[key] ELSE NoRow

----------------------------------------------------------------------------
(* The handler's decisions. *)

\* status of the two catch-block responses; fetchB passes no status
ErrorStatus(v, code) ==
    IF v = "fetchB" THEN 200
    ELSE IF code = "INVALID_INPUT" THEN 400 ELSE 500

InvalidInput(v) == Reply(ErrorStatus(v, "INVALID_INPUT"), "INVALID_INPUT", "bad card key format")
\* the fetch handlers append error.message to the message; onRequest does not
ServerError(v, cause) ==
    Reply(ErrorStatus(v, "SERVER_ERROR"), "SERVER_ERROR",
          IF v = "onRequest" THEN "error while verifying" ELSE cause)
InvalidCard == Reply(200, "INVALID_CARD", "card key invalid or expired")
CardExpired == Reply(200, "CARD_EXPIRED", "card key expired")
MethodNotAllowed == Reply(405, "NONE", "use POST")
Preflight == Reply(200, "NONE", "NONE")

\* const expiresAt = result.first_used_at + (24 * 60 * 60)   (fetch handlers)
\* result.expires_at                                         (onRequest)
ExpiresAt(v, res) ==
    IF v = "onRequest" THEN res.expires_at ELSE res.first_used_at + WINDOW

\* a renewal that re-stamps the row: the used branch falls through to the UPDATE
DecideReactivates(v, res, n) ==
    IF res.is_used /\ n > ExpiresAt(v, res)
    THEN [pc |-> "done", resp |-> CardExpired]
    ELSE [pc |-> "update", resp |-> NoResp]

\* if (result.is_used) { ... } : the renewal branch, else on to the UPDATE
Decide(v, res, n) ==
    IF res.is_used
    THEN IF n > ExpiresAt(v, res)
         THEN [pc |-> "done", resp |-> CardExpired]
         ELSE [pc |-> "done", resp |-> Grant("SESSION_RENEWED", ExpiresAt(v, res) - n)]
    ELSE [pc |-> "update", resp |-> NoResp]

\* an UPDATE that marks the row used and forgets the time stamp
SetClauseNoStamp(v, row, n, t) == [row EXCEPT !.is_used = TRUE]

\* the SET clause of the first-activation UPDATE, applied to the row of the key
\*   onRequest: is_used = TRUE, activated_at = now, expires_at = now + 24*60*60
\*   fetchB   : is_used = 1, first_used_at = strftime('%s','now')
SetClause(v, row, n, t) ==
    IF v = "onRequest"
    THEN [row EXCEPT !.is_used = TRUE, !.activated_at = n, !.expires_at = n + WINDOW]
    ELSE [row EXCEPT !.is_used = TRUE, !.first_used_at = parseInt(strftime(t))]

\* an UPDATE that is not awaited and has not reached the table when the response goes out
UpdateWhereLost(v, table, key, n, t) == table

\* UPDATE card_keys SET ... WHERE key = ?   (no condition on is_used)
UpdateWhere(v, table, key, n, t) ==
    [k \in DOMAIN table |-> IF k = key THEN SetClause(v, table[k], n, t) ELSE table[k]]

\* fetchA binds three values to a statement with two placeholders: the
\* statement is rejected when it is run
BindOk(v) == v # "fetchA"

\* a statement that throws after its write has landed
AfterUpdateLanded(v, table, key, n, t, ok) ==
    [k \in DOMAIN table |-> IF k = key THEN SetClause(v, table[k], n, t) ELSE table[k]]

\* the table after .run(): a statement that throws has written nothing
AfterUpdate(v, table, key, n, t, ok) ==
    IF ~ok \/ ~BindOk(v) THEN table ELSE UpdateWhere(v, table, key, n, t)

----------------------------------------------------------------------------
(* The state machine. *)

Init ==
    /\ variant \in Variants
    /\ skewMs \in IF variant = "fetchB" THEN {0} ELSE SkewsMs
    /\ \E e \in ProvisionedExpiry(variant) :
          card_keys = [k \in Provisioned(variant) |-> FreshRow(variant, e)]
    /\ dbNow = StartTime
    /\ ticks = 0
    /\ calls = 0
    /\ pc = [r \in Reqs |-> "idle"]
    /\ cardKey = [r \in Reqs |-> <<>>]
    /\ result = [r \in Reqs |-> NoRow]
    /\ now = [r \in Reqs |-> 0]
    /\ resp = [r \in Reqs |-> NoResp]
    /\ seen = [r \in Reqs |-> [row |-> NoRow, at |-> 0]]
    /\ prior = [r \in Reqs |-> {}]
    /\ dead = [r \in Reqs |-> FALSE]
    /\ io = [r \in Reqs |-> NoIo]
    /\ late = [r \in Reqs |-> FALSE]

\* the requests that arrive: a POST with any body, or a bodyless GET or OPTIONS
Requests ==
    {[method |-> "POST", body |-> b] : b \in Bodies}
    \cup {[method |-> m, body |-> [kind |-> "text", cardKey |-> <<>>]] : m \in {"GET", "OPTIONS"}}

\* what the handler does before its first store access
\* Entry without CardValidationSchema.parse: every JSON body goes on to the store
EntryUnvalidated(v, method, body) ==
    IF v = "fetchB" /\ method = "OPTIONS" THEN [pc |-> "done", resp |-> Preflight]
    ELSE IF method # "POST" THEN [pc |-> "done", resp |-> MethodNotAllowed]
    ELSE IF body.kind = "text" THEN [pc |-> "done", resp |-> ServerError(v, "body is not JSON")]
    ELSE [pc |-> "select", resp |-> NoResp]

Entry(v, method, body) ==
    IF v = "fetchB" /\ method = "OPTIONS" THEN [pc |-> "done", resp |-> Preflight]
    ELSE IF method # "POST" THEN [pc |-> "done", resp |-> MethodNotAllowed]
    ELSE IF body.kind = "text" THEN [pc |-> "done", resp |-> ServerError(v, "body is not JSON")]
    ELSE IF ~CardValidationSchema(v, body) THEN [pc |-> "done", resp |-> InvalidInput(v)]
    ELSE [pc |-> "select", resp |-> NoResp]

\* the SESSION_RENEWED responses sent so far and still on record: the remaining
\* time each announced and the clock value it was computed from
Renewals ==
    {[expires_in |-> resp[s].expires_in, now |-> now[s]] :
        s \in {q \in Reqs : pc[q] = "done" /\ resp[q].code = "SESSION_RENEWED"}}

\* an ACTIVATION_SUCCESS has been sent for the key and is still on record
Activated(key) ==
    \E s \in Reqs : pc[s] = "done" /\ resp[s].code = "ACTIVATION_SUCCESS" /\ cardKey[s] = key

\* the row is activated and its expiry lies in the past on both clocks
Expired(row) ==
    /\ row.found /\ row.is_used
    /\ dbNow > ExpiresAt(variant, row)
    /\ WallNow > ExpiresAt(variant, row)

\* A request arrives: method check, request.json(), CardValidationSchema.parse.
Begin(r, method, body) ==
    /\ pc[r] \in {"idle", "done"}
    /\ calls < MaxCalls
    /\ calls' = calls + 1
    /\ LET e == Entry(variant, method, body) IN
         /\ pc' = [pc EXCEPT ![r] = e.pc]
         /\ resp' = [resp EXCEPT ![r] = e.resp]
         /\ cardKey' = [cardKey EXCEPT ![r] = IF e.pc = "select" THEN body.cardKey ELSE <<>>]
    /\ result' = [result EXCEPT ![r] = NoRow]
    /\ now' = [now EXCEPT ![r] = 0]
    /\ seen' = [seen EXCEPT ![r] = [row |-> NoRow, at |-> 0]]
    /\ prior' = [prior EXCEPT ![r] = Renewals]
    /\ dead' = [dead EXCEPT ![r] = body.kind = "json" /\ Expired(RowOf(card_keys, body.cardKey))]
    /\ io' = [io EXCEPT ![r] = Issue(NoIo, pc'[r])]
    /\ late' = [late EXCEPT ![r] = body.kind = "json" /\ Activated(body.cardKey)]
    /\ UNCHANGED <<variant, card_keys, dbNow, skewMs, ticks>>

\* the catch block for a failed store statement
Fail(r, cause) ==
    /\ pc' = [pc EXCEPT ![r] = "done"]
    /\ resp' = [resp EXCEPT ![r] = ServerError(variant, cause)]

\* The gate SELECT completes.  onRequest and fetchA then read Date.now() and
\* branch at once; fetchB goes on to ask the store for the time.
Select(r, ok) ==
    /\ pc[r] = "select"
    /\ IF ~ok
       THEN Fail(r, "store unavailable") /\ UNCHANGED <<result, now, seen>>
       ELSE LET res == SelectFirst(variant, card_keys, cardKey[r], dbNow) IN
            /\ result' = [result EXCEPT ![r] = res]
            /\ seen' = [seen EXCEPT ![r] = [row |-> RowOf(card_keys, cardKey[r]), at |-> dbNow]]
            /\ IF ~res.found
               THEN /\ pc' = [pc EXCEPT ![r] = "done"]
                    /\ resp' = [resp EXCEPT ![r] = InvalidCard]
                    /\ now' = now
               ELSE IF variant = "fetchB"
               THEN /\ pc' = [pc EXCEPT ![r] = "clock"]
                    /\ UNCHANGED <<resp, now>>
               ELSE LET d == Decide(variant, res, WallNow) IN
                    /\ now' = [now EXCEPT ![r] = WallNow]
                    /\ pc' = [pc EXCEPT ![r] = d.pc]
                    /\ resp' = [resp EXCEPT ![r] = d.resp]
    /\ io' = [io EXCEPT ![r] = Issue(@, pc'[r])]
    /\ UNCHANGED <<variant, card_keys, dbNow, skewMs, ticks, calls, cardKey, prior, dead, late>>

\* fetchB: SELECT strftime('%s','now') as current_time completes, then the branch.
CurrentTime(r, ok) ==
    /\ pc[r] = "clock"
    /\ IF ~ok
       THEN Fail(r, "store unavailable") /\ now' = now
       ELSE LET n == parseInt(strftime(dbNow))
                d == Decide(variant, result[r], n) IN
            /\ now' = [now EXCEPT ![r] = n]
            /\ pc' = [pc EXCEPT ![r] = d.pc]
            /\ resp' = [resp EXCEPT ![r] = d.resp]
    /\ io' = [io EXCEPT ![r] = Issue(@, pc'[r])]
    /\ UNCHANGED <<variant, card_keys, dbNow, skewMs, ticks, calls, cardKey, result, seen, prior, dead, late>>

\* The first-activation UPDATE completes, then ACTIVATION_SUCCESS is sent.
Update(r, ok) ==
    /\ pc[r] = "update"
    /\ card_keys' = AfterUpdate(variant, card_keys, cardKey[r], now[r], dbNow, ok)
    /\ IF ~ok \/ ~BindOk(variant)
       THEN Fail(r, IF ok THEN "wrong number of parameter bindings" ELSE "store unavailable")
       ELSE /\ pc' = [pc EXCEPT ![r] = "done"]
            /\ resp' = [resp EXCEPT ![r] = Grant("ACTIVATION_SUCCESS", expiresIn(variant))]
    /\ UNCHANGED <<variant, dbNow, skewMs, ticks, calls, cardKey, result, now, seen, prior, dead, io, late>>

\* Time passes.
Tick ==
    /\ ticks < MaxTicks
    /\ ticks' = ticks + 1
    /\ dbNow' = dbNow + TickStep(ticks)
    /\ UNCHANGED <<variant, card_keys, skewMs, calls, pc, cardKey, result, now, resp, seen, prior, dead, io, late>>

Next ==
    \/ \E r \in Reqs, q \in Requests : Begin(r, q.method, q.body)
    \/ \E r \in Reqs, ok \in BOOLEAN : Select(r, ok)
    \/ \E r \in Reqs, ok \in BOOLEAN : CurrentTime(r, ok)
    \/ \E r \in Reqs, ok \in BOOLEAN : Update(r, ok)
    \/ Tick

Spec == Init /\ [][Next]_vars

----------------------------------------------------------------------------
(* Properties. *)

Done(r) == pc[r] = "done"
Code(r) == resp[r].code

\* C1: exactly-once activation -- among the requests resolving one never-used
\* code, under every interleaving, at most one is answered ACTIVATION_SUCCESS
\* (every other one sees the code used and is answered SESSION_RENEWED or
\* CARD_EXPIRED).
C1_ExactlyOnceActivation ==
    \A a, b \in Reqs :
        (a # b /\ Done(a) /\ Done(b) /\ cardKey[a] = cardKey[b]
               /\ Code(a) = "ACTIVATION_SUCCESS")
        => Code(b) \in {"SESSION_RENEWED", "CARD_EXPIRED", "INVALID_CARD", "SERVER_ERROR"}

\* C2: once a row has been activated (first_used_at / activated_at and its
\* expiry are set), no later store write changes the row.
C2_FirstUseImmutable ==
    [][\A k \in DOMAIN card_keys : card_keys[k].is_used => card_keys'[k] = card_keys[k]]_vars

\* the request's gate SELECT ran
Read(r) == Done(r) /\ seen[r].at # 0
\* Math.floor(Date.now() / 1000) at the time of the request's gate SELECT
WallAt(r) == (seen[r].at * 1000 + skewMs) \div 1000
\* the request's gate SELECT met an activated row whose expiry both clocks had passed
SawExpired(r) ==
    /\ Read(r) /\ seen[r].row.found /\ seen[r].row.is_used
    /\ seen[r].at > ExpiresAt(variant, seen[r].row)
    /\ WallAt(r) > ExpiresAt(variant, seen[r].row)

\* C3 (to the letter): a resolve call that meets an activated code past its
\* expiry is answered CARD_EXPIRED.
C3_ExpiredAlwaysCardExpired ==
    \A r \in Reqs : SawExpired(r) => Code(r) \in {"CARD_EXPIRED", "SERVER_ERROR"}

\* C3: expiry terminality -- once now > first_used_at + WINDOW for an activated
\* code, every resolve call that arrives afterwards is turned down as expired
\* (CARD_EXPIRED; the gate's INVALID_CARD for an expired row is counted with it),
\* whatever else happens and however often it is retried.
C3_ExpiryTerminal ==
    \A r \in Reqs : (Done(r) /\ dead[r]) =>
        Code(r) \in {"CARD_EXPIRED", "INVALID_CARD", "SERVER_ERROR"}

\* C4: unknown-code opacity -- a resolve of a key absent from the table and a
\* resolve of an activated, expired key are both answered with the same
\* INVALID_CARD response.
C4_UnknownCodeOpacity ==
    \A r \in Reqs :
        /\ (Read(r) /\ ~seen[r].row.found) => resp[r] = InvalidCard
        /\ SawExpired(r) => resp[r] \in {InvalidCard, ServerError(variant, "store unavailable")}

\* C5: idempotent renewal -- a request that reads an activated row and completes
\* while the code is not yet expired on either clock is answered SESSION_RENEWED
\* with the time remaining, and no step of a request that read an activated row
\* changes the table.
C5_RenewalIdempotent ==
    [][\A r \in Reqs :
         (pc'[r] # pc[r] /\ seen'[r].row.found /\ seen'[r].row.is_used) =>
            /\ card_keys' = card_keys
            /\ ( /\ pc'[r] = "done"
                 /\ dbNow < ExpiresAt(variant, seen'[r].row)
                 /\ WallNow < ExpiresAt(variant, seen'[r].row)
                 /\ resp'[r].code # "SERVER_ERROR" )
               => resp'[r] = Grant("SESSION_RENEWED", ExpiresAt(variant, seen'[r].row) - now'[r])
      ]_vars

\* a renewal has been answered
C5_Witness ==
    \E r \in Reqs : Done(r) /\ seen[r].row.is_used /\ Code(r) = "SESSION_RENEWED"

\* C6 (as written): each SESSION_RENEWED response announces a strictly smaller
\* expires_in than every renewal answered before the request arrived.
C6_StrictlyDecreasing ==
    \A r \in Reqs : (Done(r) /\ Code(r) = "SESSION_RENEWED") =>
        \A p \in prior[r] : resp[r].expires_in < p.expires_in

\* C6: successive renewals of a code announce strictly decreasing expires_in --
\* a SESSION_RENEWED response computed at a later clock value than an earlier
\* renewal announces a strictly smaller expires_in.
C6_DecreasingAsTimePasses ==
    \A r \in Reqs : (Done(r) /\ Code(r) = "SESSION_RENEWED") =>
        \A p \in prior[r] : now[r] > p.now => resp[r].expires_in < p.expires_in

\* the time of first use a row records: activated_at in onRequest's table
FirstUse(v, row) == IF v = "onRequest" THEN row.activated_at ELSE row.first_used_at

\* C7: first activation -- a request that found the code unused and whose store
\* statements ran is answered ACTIVATION_SUCCESS with expires_in = WINDOW, and
\* its UPDATE leaves the row with is_used = true and the time of the call as
\* its time of first use.
C7_FirstActivation ==
    [][\A r \in Reqs :
         ( /\ pc[r] = "update" /\ pc'[r] = "done"
           /\ resp'[r] # ServerError(variant, "store unavailable") ) =>
            /\ resp'[r] = Grant("ACTIVATION_SUCCESS", WINDOW)
            /\ card_keys'[cardKey[r]].is_used
            /\ FirstUse(variant, card_keys'[cardKey[r]]) \in {now[r], dbNow}
      ]_vars

\* C8: deterministic expiry arithmetic -- when a code's activation was answered
\* with expires_in = W, a renewal at T0 + d is answered with expires_in = W - d,
\* T0 being the time of first use the renewal read.
C8_ExpiryArithmetic ==
    \A a, r \in Reqs :
        ( /\ Done(a) /\ Code(a) = "ACTIVATION_SUCCESS"
          /\ Done(r) /\ Code(r) = "SESSION_RENEWED"
          /\ cardKey[a] = cardKey[r]
          /\ now[r] - FirstUse(variant, result[r]) > 0
          /\ now[r] - FirstUse(variant, result[r]) < resp[a].expires_in ) =>
            resp[r].expires_in = resp[a].expires_in - (now[r] - FirstUse(variant, result[r]))

\* C9: in every state a row records a time of first use exactly when is_used is
\* true, and is_used never goes back from true to false.
C9_UsedIffStamped ==
    /\ [](\A k \in DOMAIN card_keys :
            card_keys[k].is_used <=> FirstUse(variant, card_keys[k]) # NULL)
    /\ [][\A k \in DOMAIN card_keys : card_keys[k].is_used => card_keys'[k].is_used]_vars

\* a row has been activated
C9_Witness ==
    \E k \in DOMAIN card_keys :
        card_keys[k].is_used /\ FirstUse(variant, card_keys[k]) # NULL

\* C10: status mapping -- INVALID_INPUT goes out with status 400, SERVER_ERROR
\* with 500, and the four resolver outcomes with 200.
C10_StatusMapping ==
    \A r \in Reqs : Done(r) =>
        /\ Code(r) = "INVALID_INPUT" => resp[r].status = 400
        /\ Code(r) = "SERVER_ERROR" => resp[r].status = 500
        /\ Code(r) \in {"INVALID_CARD", "CARD_EXPIRED", "SESSION_RENEWED", "ACTIVATION_SUCCESS"}
              => resp[r].status = 200

\* C11: a request whose cardKey does not match the deployed handler's pattern
\* (or is missing) is answered INVALID_INPUT at once, and no store read or write
\* is issued for it: a request answered INVALID_INPUT has issued no statement,
\* and a request that has issued one holds a cardKey that matches the pattern.
C11_ValidationPrecedesStore ==
    /\ \A b \in Bodies :
          (b.kind # "text" /\ ~CardValidationSchema(variant, b)) =>
              /\ Entry(variant, "POST", b).pc = "done"
              /\ Entry(variant, "POST", b).resp.code = "INVALID_INPUT"
    /\ \A r \in Reqs :
          /\ (Done(r) /\ Code(r) = "INVALID_INPUT") => (io[r] = NoIo /\ seen[r].at = 0)
          /\ io[r] # NoIo =>
                CardValidationSchema(variant, [kind |-> "json", cardKey |-> cardKey[r]])

C11_Witness ==
    \E r \in Reqs : Done(r) /\ Code(r) = "INVALID_INPUT" /\ io[r] = NoIo

\* C12: a session cookie is set exactly on the valid:true responses, which are
\* exactly SESSION_RENEWED and ACTIVATION_SUCCESS, and its Max-Age equals the
\* expires_in of the same body; a valid:false response sets no cookie.
C12_CookieOnGrantsOnly ==
    \A r \in Reqs : Done(r) =>
        /\ resp[r].valid <=> Code(r) \in {"SESSION_RENEWED", "ACTIVATION_SUCCESS"}
        /\ resp[r].valid <=> resp[r].max_age # NULL
        /\ resp[r].valid => resp[r].max_age = resp[r].expires_in

C12_Witness ==
    /\ \E r \in Reqs : Done(r) /\ Code(r) = "SESSION_RENEWED" /\ resp[r].max_age = resp[r].expires_in
                        /\ resp[r].expires_in < WINDOW
    /\ \E r \in Reqs : Done(r) /\ Code(r) = "ACTIVATION_SUCCESS" /\ resp[r].max_age = expiresIn(variant)

\* C13: every SESSION_RENEWED response carries expires_in > 0, also when the
\* branch reads a later clock value than the gate did and when now = expires_at.
C13_RenewalPositive ==
    \A r \in Reqs : (Done(r) /\ Code(r) = "SESSION_RENEWED") => resp[r].expires_in > 0

\* the gate SELECT of request r has completed
Gated(r) == seen[r].at # 0

\* C14: the gate accepts every never-used record at any current time, and a
\* record that is present is turned away as INVALID_CARD only if it was
\* activated and its expiry is not strictly later than the gate's time.
C14_GateAcceptsNeverUsed ==
    \A r \in Reqs : (Gated(r) /\ seen[r].row.found) =>
        /\ (~seen[r].row.is_used /\ FirstUse(variant, seen[r].row) = NULL) => result[r].found
        /\ ~result[r].found =>
              /\ seen[r].row.is_used
              /\ FirstUse(variant, seen[r].row) # NULL
              /\ ExpiresAt(variant, seen[r].row) <= seen[r].at

\* C15: one time value serves a request's gate, its branch and its write stamp:
\* the branch's now is the time the gate was evaluated at, and the
\* first_used_at a first activation stores is that same time.
C15_SingleTimeValue ==
    /\ [](\A r \in Reqs : now[r] # 0 => now[r] = seen[r].at)
    /\ [][\A r \in Reqs :
            (pc[r] = "update" /\ pc'[r] = "done" /\ resp'[r].code = "ACTIVATION_SUCCESS") =>
                FirstUse(variant, card_keys'[cardKey[r]]) = seen[r].at]_vars

\* C16: a request that reaches the store issues exactly one store read and at
\* most one store write, the write only after the gate returned the record with
\* is_used = false; INVALID_CARD, CARD_EXPIRED and SESSION_RENEWED requests
\* issue no write.
C16_OneReadOneWrite ==
    \A r \in Reqs : io[r] # NoIo =>
        /\ io[r].reads = 1
        /\ io[r].writes <= 1
        /\ io[r].writes = 1 => (result[r].found /\ ~result[r].is_used)
        /\ (Done(r) /\ Code(r) \in {"INVALID_CARD", "CARD_EXPIRED", "SESSION_RENEWED"}) =>
              io[r].writes = 0

\* C17: a store read or an activation write that fails ends the request at once
\* with SERVER_ERROR: no further statement is issued, no cookie is set, the
\* response is not valid:true, and the table is as it was, so the record of a
\* failed activation write is still unused for a later resolve.
C17_StoreFailure ==
    [][\A r \in Reqs :
        (pc[r] \in {"select", "clock", "update"} /\ resp'[r].code = "SERVER_ERROR") =>
            /\ pc'[r] = "done"
            /\ ~resp'[r].valid /\ resp'[r].max_age = NULL /\ resp'[r].expires_in = NULL
            /\ io'[r] = io[r]
            /\ card_keys' = card_keys]_vars

\* an activation write failed, the record stayed unused, and a request whose
\* gate ran later activated it
C17_Witness ==
    \E a, b \in Reqs :
        /\ Done(a) /\ Code(a) = "SERVER_ERROR" /\ io[a].writes = 1
        /\ Done(b) /\ Code(b) = "ACTIVATION_SUCCESS" /\ cardKey[b] = cardKey[a]
        /\ seen[b].at > seen[a].at /\ ~seen[b].row.is_used

\* C18: the session never outlives the code: when a valid:true response is
\* produced at the handler's time now, now + Max-Age is at most the expiry the
\* store holds for the code at that moment.
C18_SessionWithinCode ==
    [][\A r \in Reqs :
        (pc[r] # "done" /\ pc'[r] = "done" /\ resp'[r].valid) =>
            now'[r] + resp'[r].max_age <= ExpiresAt(variant, card_keys'[cardKey[r]])]_vars

\* C19: CARD_EXPIRED is answered only when the branch read a time strictly later
\* than the time the gate admitted the record at; a request whose gate and
\* branch share one time value never answers CARD_EXPIRED, and answers
\* INVALID_CARD for a code that had expired by then.
C19_ExpiredOnlyByLaterClock ==
    \A r \in Reqs : (Done(r) /\ Gated(r)) =>
        /\ Code(r) = "CARD_EXPIRED" => now[r] > seen[r].at
        /\ (/\ seen[r].row.found /\ seen[r].row.is_used
            /\ ExpiresAt(variant, seen[r].row) < seen[r].at
            /\ now[r] \in {0, seen[r].at}
            /\ Code(r) # "SERVER_ERROR") => Code(r) = "INVALID_CARD"

\* C20: ACTIVATION_SUCCESS is sent only once the write has landed: the store
\* holds is_used = true for the code of every ACTIVATION_SUCCESS on record, and
\* a request that arrived after one never takes the first-activation path (it
\* issues no write and is not answered ACTIVATION_SUCCESS).
C20_SuccessAfterWrite ==
    \A r \in Reqs :
        /\ (Done(r) /\ Code(r) = "ACTIVATION_SUCCESS") => card_keys[cardKey[r]].is_used
        /\ late[r] =>
              /\ pc[r] # "update"
              /\ io[r].writes = 0
              /\ ~(Done(r) /\ Code(r) = "ACTIVATION_SUCCESS")

C20_Witness ==
    \E r \in Reqs : late[r] /\ Done(r) /\ Gated(r) /\ seen[r].row.is_used
                     /\ Code(r) \in {"SESSION_RENEWED", "CARD_EXPIRED", "INVALID_CARD"}

============================================================================
